---- MODULE Spec2Model ----
(***************************************************************************)
(* Model of chimera_autoalign/controllers/autoalign.py: the AutoAlign      *)
(* controller.  align() is modelled step by step (one action per external  *)
(* call or control decision of the loop), checkDistribution() and          *)
(* _applyHexapodOffset() are modelled as operators that compute what the    *)
(* Python computes.                                                        *)
(*                                                                         *)
(* Physical quantities (astropy Quantity) are records [value, unit] with   *)
(* integer values; lengths are carried in micrometres or millimetres,      *)
(* angles in arcseconds or degrees.  Real-valued results (a converted      *)
(* value, a number of focuser steps) are exact fractions <<num, den>> in   *)
(* lowest terms.                                                           *)
(***************************************************************************)
EXTENDS Integers, Sequences, FiniteSets, TLC

(***************************************************************************)
(* Bounds of the model                                                     *)
(***************************************************************************)
\* largest iteration budget (niter) a caller passes
MaxNiter == 1
\* multiplicity of a crowded position of a catalog (more stars than 2*ngrid^2)
Crowd == 130

(***************************************************************************)
(* Arithmetic helpers                                                      *)
(***************************************************************************)
Abs(n) == IF n < 0 THEN -n ELSE n

\* greatest common divisor of two natural numbers (Euclid)
GCD(a, b) ==
    LET gcd[m \in Nat, n \in Nat] == IF n = 0 THEN m ELSE gcd[n, m % n]
    IN gcd[a, b]

\* the fraction n/d (d > 0) in lowest terms
Frac(n, d) == LET g == GCD(Abs(n), d) IN <<n \div g, d \div g>>

\* sum of f[p] over the set S
SumOver(f, S) ==
    LET sum[T \in SUBSET S] ==
            IF T = {} THEN 0
            ELSE LET p == CHOOSE q \in T : TRUE
                 IN f[p] + sum[T \ {p}]
    IN sum[S]

(***************************************************************************)
(* Quantities with units (astropy.units as the controller uses it)         *)
(***************************************************************************)
Quantity(v, u) == [value |-> v, unit |-> u]

\* size of one unit in the base unit of its dimension (um, arcsec)
UnitScale(u) == CASE u = "um" -> 1
                  [] u = "mm" -> 1000
                  [] u = "arcsec" -> 1
                  [] u = "deg" -> 3600

Dimension(u) == IF u \in {"um", "mm"} THEN "length" ELSE "angle"

\* offset.to(unit).value, as an exact fraction
ToValue(q, unit) == Frac(q.value * UnitScale(q.unit), UnitScale(unit))

\* np.abs(q) > threshold, a comparison of two quantities of one dimension
AbsExceedsMutant(q, threshold) ==
    Abs(q.value) * UnitScale(q.unit) >= threshold.value * UnitScale(threshold.unit)

AbsExceeds(q, threshold) ==
    Abs(q.value) * UnitScale(q.unit) > threshold.value * UnitScale(threshold.unit)

(***************************************************************************)
(* Sets up order and threshold: comma 0.009 mm (= 9 um), then astigmatism  *)
(* 10 arcsec.                                                              *)
(***************************************************************************)
alignOrder == << [name |-> "comma",       threshold |-> Quantity(9, "um")],
                 [name |-> "astigmatism", threshold |-> Quantity(10, "arcsec")] >>

(***************************************************************************)
(* HexapodAxes: focus (Z), coma (X and Y), astigmatism (U and V).          *)
(* hexapod_offset[name] is the mapping from the keys of one aberration     *)
(* class to their offsets; ClassKeys gives its keys in iteration order.    *)
(***************************************************************************)
ClassKeys(name) == CASE name = "comma" -> <<"x", "y">>
                     [] name = "astigmatism" -> <<"u", "v">>
                     [] name = "focus" -> <<"z">>

\* HexapodAxes(): the value hexapod_offset holds before the first fit
HexapodAxes == [x |-> Quantity(0, "um"), y |-> Quantity(0, "um"),
                z |-> Quantity(0, "um"),
                u |-> Quantity(0, "arcsec"), v |-> Quantity(0, "arcsec")]

\* the offsets MkOptics.align can return
ComaX == {-10, 9}
ComaY == {9, 10}
AstigU == {-11, 10}
AstigV == {10, 11}
FocusZ == {0, 5}

Offsets == { [x |-> Quantity(a, "um"), y |-> Quantity(b, "um"),
              z |-> Quantity(c, "um"),
              u |-> Quantity(d, "arcsec"), v |-> Quantity(e, "arcsec")] :
             a \in ComaX, b \in ComaY, c \in FocusZ, d \in AstigU, e \in AstigV }

(***************************************************************************)
(* Axis names and str.upper()                                              *)
(***************************************************************************)
AxisNames == {"x", "X", "y", "Y", "z", "Z", "u", "U", "v", "V",
              "w", "W", "xy", "focus", ""}

upper(axis) == CASE axis = "x" -> "X" [] axis = "y" -> "Y" [] axis = "z" -> "Z"
                 [] axis = "u" -> "U" [] axis = "v" -> "V" [] axis = "w" -> "W"
                 [] axis = "xy" -> "XY" [] axis = "focus" -> "FOCUS"
                 [] OTHER -> axis

(***************************************************************************)
(* State                                                                   *)
(***************************************************************************)
VARIABLES
    pc,                        \* where the running call is
    arg,                       \* the public method this behaviour calls, with its arguments
    filter,                    \* self.filter
    check_stellar_ditribution, \* parameters of the running align call
    minimum_star,
    niter,
    iter,                      \* locals of align
    applied,
    hexapod_offset,
    cat,
    step,                      \* focuser["step"], a fraction <<num, den>>
    size,                      \* camera.getPixelSize(): <<width, heigth>>
    log,                       \* external calls of the current iteration, in order
    moves,                     \* focuser commands of the current iteration, in order
    exposures,                 \* per call: exposures taken
    steps,                     \* per call: stepComplete events
    nmoves,                    \* per call: focuser commands issued
    zmoves,                    \* per call: focuser commands on axis Z
    lastMove,                  \* per call: the last focuser command, <<>> when none
    warned,                    \* 'Maximum number of iterations reached.' was logged
    exc,                       \* the exception that ended the call, "" when none
    result,                    \* what the call returned, <<>> when nothing
    lastFit,                   \* per call: what the last mkopt.align returned, <<>> when none
    filterParam,               \* the filter argument of the running align call
    wheel,                     \* per call: the filters passed to setFilter, in order
    currentRun,                \* self.currentRun
    imageRequest,              \* self.imageRequest
    shot,                      \* what the last exposure of the call read, and who took it
    pc2                        \* where a second caller of align is

vars == <<pc, arg, filter, check_stellar_ditribution, minimum_star, niter, iter,
          applied, hexapod_offset, cat, step, size, log, moves, exposures, steps,
          nmoves, zmoves, lastMove, warned, exc, result, lastFit, filterParam,
          wheel, currentRun, imageRequest, shot, pc2>>

(***************************************************************************)
(* _applyHexapodOffset(axis, offset): the focuser commands it issues       *)
(***************************************************************************)
\* np.abs(offset.to(unit).value) / focuser["step"]
StepAmount(offset, unit) ==
    LET v == ToValue(offset, unit)
    IN Frac(Abs(v[1]) * step[2], v[2] * step[1])

MoveMutantDirection(axis, offset, unit) ==
    [op     |-> IF offset.value >= 0 THEN "moveOut" ELSE "moveIn",
     amount |-> StepAmount(offset, unit),
     axis   |-> upper(axis)]

Move(axis, offset, unit) ==
    [op     |-> IF offset.value > 0 THEN "moveOut" ELSE "moveIn",
     amount |-> StepAmount(offset, unit),
     axis   |-> upper(axis)]

applyHexapodOffset(axis, offset) ==
    IF upper(axis) \in {"X", "Y", "Z"}
    THEN << Move(axis, offset, "mm") >>
    ELSE IF upper(axis) \in {"U", "V"}
         THEN << Move(axis, offset, "deg") >>
         ELSE << >>

(***************************************************************************)
(* checkDistribution(catalog)                                              *)
(* A catalog is a bag of star positions: a function from the positions     *)
(* <<X_IMAGE, Y_IMAGE>> it holds to the number of stars there.             *)
(***************************************************************************)
ngrid == 8

Cells == 0 .. (ngrid - 2)

\* len(catalog)
CatLen(catalog) == SumOver(catalog, DOMAIN catalog)

\* np.linspace(0, extent, ngrid)[k] < v < np.linspace(0, extent, ngrid)[k+1]
Between(v, k, extent) ==
    /\ k * extent < (ngrid - 1) * v
    /\ (ngrid - 1) * v < (k + 1) * extent

\* star_per_grid[i][j] as the nested loops fill it: mask_w is taken from
\* wgrid[i], wgrid[i+1] and mask_h from hgrid[i], hgrid[i+1]
star_per_grid(catalog, i, j, width, heigth) ==
    SumOver(catalog, {p \in DOMAIN catalog :
                         Between(p[1], i, width) /\ Between(p[2], i, heigth)})

\* star_per_grid < nstar, with nstar = len(catalog)/2/ngrid**2
BelowNstar(count, len) == count * 2 * ngrid * ngrid < len

\* TRUE when checkDistribution raises StarDistributionException
checkDistribution(catalog, width, heigth) ==
    \E len \in { CatLen(catalog) } :
        \E i \in Cells : \E j \in Cells :
            BelowNstar(star_per_grid(catalog, i, j, width, heigth), len)

(***************************************************************************)
(* Inputs: catalogs the star extraction can return, parameters of align    *)
(***************************************************************************)
\* camera.getPixelSize() of the modelled camera
SensorSizes == { <<14, 14>> }

\* one position inside every cell of the diagonal of the grid
DiagonalPositions == { <<2 * i + 1, 2 * i + 1>> : i \in Cells }

\* one position inside every cell of the grid
AllPositions == { <<2 * i + 1, 2 * j + 1>> : i \in Cells, j \in Cells }

EmptyCatalog == [p \in {} |-> 1]
OneStar == [p \in { <<1, 1>> } |-> 1]
DiagonalCatalog == [p \in DiagonalPositions |-> 1]
FullCatalog == [p \in AllPositions |-> 1]

\* the catalogs _findStars returns inside align
AlignCatalogs == { EmptyCatalog, OneStar, DiagonalCatalog, FullCatalog }

\* the catalogs a direct call of checkDistribution is given: every bag over the
\* diagonal positions, one off-diagonal position and one position on a grid
\* line, with 0, 1 or Crowd stars at each, and the full catalog
CandidatePositions == DiagonalPositions \cup { <<1, 3>>, <<2, 2>> }

BagOf(m) == [p \in {q \in DOMAIN m : m[q] > 0} |-> m[p]]

DistCatalogs == { BagOf(m) : m \in [CandidatePositions -> {0, 1, Crowd}] }
                    \cup { FullCatalog }

Filters == {"None", "R"}
MinimumStars == {-1, 0, 8}
Niters == (-1) .. MaxNiter

\* Python truth value of self.filter / of the filter argument
Truthy(f) == f \notin {"None", "False", ""}

\* the arguments of a direct call of _applyHexapodOffset: an offset whose
\* dimension the axis converts (a length for X, Y, Z, an angle for U, V)
OffsetValues == {-15, -1, 0, 1, 18}
OffsetSteps == { <<1, 1000>>, <<1, 2>>, <<3, 1>> }

OffsetArgs ==
    { [op |-> "_applyHexapodOffset", axis |-> a, offset |-> Quantity(v, u)] :
        a \in AxisNames, v \in OffsetValues, u \in {"um", "mm", "arcsec", "deg"} }

Convertible(a) ==
    /\ upper(a.axis) \in {"X", "Y", "Z"} => Dimension(a.offset.unit) = "length"
    /\ upper(a.axis) \in {"U", "V"} => Dimension(a.offset.unit) = "angle"

(***************************************************************************)
(* The fields align shares between calls, and the object lock              *)
(***************************************************************************)
\* self.imageRequest = None
NoRequest == [exptime |-> 0, frames |-> 0, shutter |-> "None"]

\* ImageRequest() with exptime or 10, frames 1, shutter OPEN; an exptime of
\* None is written 0, which Python's `or` treats alike
NewRequest(exptime) ==
    [exptime |-> IF exptime = 0 THEN 10 ELSE exptime, frames |-> 1,
     shutter |-> "OPEN"]

\* self._getID() of the run of caller c (the time stamp names the run)
RunID(c) == IF c = 1 THEN "autoalign-1" ELSE "autoalign-2"

\* self.filter after `if filter: ... else: self.filter = False`
NewFilterMutant(f) == IF Truthy(f) THEN f ELSE filter

NewFilter(f) == IF Truthy(f) THEN f ELSE "False"

\* no exposure taken yet
NoShot == [by |-> 0, currentRun |-> "None", imageRequest |-> NoRequest,
           filter |-> "None"]

\* what an exposure of caller c reads: currentRun for the file name,
\* self.filter for the wheel, self.imageRequest for the camera
Exposure(c) == [by |-> c, currentRun |-> currentRun,
                imageRequest |-> imageRequest, filter |-> filter]

\* a call of align is running in the first / the second caller
Running == pc \notin {"idle", "returned", "raised"}

Running2 == pc2 \in {"takeImage", "body"}

\* @lock: align runs holding the lock of the object
LockFreeMutant == TRUE

LockFree == ~Running /\ ~Running2

(***************************************************************************)
(* Initial states: the controller after __init__, no call running          *)
(***************************************************************************)
Idle ==
    /\ pc = "idle"
    /\ filter = "None"
    /\ check_stellar_ditribution = TRUE
    /\ minimum_star = 100
    /\ niter = 10
    /\ iter = 0
    /\ applied = FALSE
    /\ hexapod_offset = HexapodAxes
    /\ size \in SensorSizes
    /\ log = << >>
    /\ moves = << >>
    /\ exposures = 0
    /\ steps = 0
    /\ nmoves = 0
    /\ zmoves = 0
    /\ lastMove = << >>
    /\ warned = FALSE
    /\ exc = ""
    /\ result = << >>
    /\ lastFit = << >>
    /\ filterParam = "None"
    /\ wheel = << >>
    /\ currentRun = "None"
    /\ imageRequest = NoRequest
    /\ shot = NoShot
    /\ pc2 = "idle"

\* behaviours that call align
Init ==
    /\ Idle
    /\ arg = [op |-> "align"]
    /\ cat = EmptyCatalog
    /\ step = <<1, 1000>>

\* behaviours that call checkDistribution directly
InitDist ==
    /\ Idle
    /\ arg = [op |-> "checkDistribution"]
    /\ cat \in DistCatalogs
    /\ step = <<1, 1000>>

\* behaviours that call _applyHexapodOffset directly
InitOffset ==
    /\ Idle
    /\ arg \in {a \in OffsetArgs : Convertible(a)}
    /\ cat = EmptyCatalog
    /\ step \in OffsetSteps

(***************************************************************************)
(* align(filter, ..., check_stellar_ditribution, minimum_star, niter)      *)
(***************************************************************************)
\* len(cat) < minimum_star and minimum_star > 0
TooFewStarsMutant(n, minimum) == n <= minimum

TooFewStars(n, minimum) == n < minimum /\ minimum > 0

\* iter > niter
LimitReachedMutant(i, n) == i >= n

LimitReached(i, n) == i > n

\* iter += 1
NextIterMutant(i) == i

NextIter(i) == i + 1

\* the keys of one aberration class whose offset exceeds the class threshold
ExceedingMutant(h, ab) ==
    LET keys == SelectSeq(ClassKeys(ab.name),
                          LAMBDA k : AbsExceeds(h[k], ab.threshold))
    IN IF keys = << >> THEN keys ELSE << Head(keys) >>

Exceeding(h, ab) ==
    SelectSeq(ClassKeys(ab.name), LAMBDA k : AbsExceeds(h[k], ab.threshold))

RECURSIVE AlignLoopMutant(_, _)
AlignLoopMutant(h, i) ==
    IF i > Len(alignOrder) THEN << >>
    ELSE Exceeding(h, alignOrder[i]) \o AlignLoopMutant(h, i + 1)

RECURSIVE AlignLoop(_, _)
\* for current_aberration_name in alignOrder: the keys corrected, those of the
\* first class (from index i on) with a key above threshold; the loop breaks
\* after the first class that applied a correction
AlignLoop(h, i) ==
    IF i > Len(alignOrder) THEN << >>
    ELSE LET keys == Exceeding(h, alignOrder[i])
         IN IF keys # << >> THEN keys ELSE AlignLoop(h, i + 1)

RECURSIVE Commands(_, _)
\* the focuser commands of self._applyHexapodOffset(ab_key, apply_offset[ab_key])
\* for the keys in order
Commands(h, keys) ==
    IF keys = << >> THEN << >>
    ELSE applyHexapodOffset(Head(keys), h[Head(keys)]) \o Commands(h, Tail(keys))

Last(sq) == sq[Len(sq)]

ZCount(cmds) == Len(SelectSeq(cmds, LAMBDA c : c.axis = "Z"))

MoveEvents(cmds) == [k \in 1 .. Len(cmds) |-> "move"]

\* a caller enters align: lines 96-130
Call(f, chk, minimum, n) ==
    /\ arg.op = "align"
    /\ pc \in {"idle", "returned", "raised"}
    /\ LockFree
    /\ pc' = "takeImage"
    /\ currentRun' = RunID(1)
    /\ imageRequest' = NewRequest(0)
    /\ filter' = NewFilter(f)
    /\ filterParam' = f
    /\ wheel' = << >>
    /\ shot' = NoShot
    /\ lastFit' = << >>
    /\ check_stellar_ditribution' = chk
    /\ minimum_star' = minimum
    /\ niter' = n
    /\ iter' = 0
    /\ applied' = FALSE
    /\ hexapod_offset' = HexapodAxes
    /\ cat' = EmptyCatalog
    /\ log' = << >>
    /\ moves' = << >>
    /\ exposures' = 0
    /\ steps' = 0
    /\ nmoves' = 0
    /\ zmoves' = 0
    /\ lastMove' = << >>
    /\ warned' = FALSE
    /\ exc' = ""
    /\ result' = << >>
    /\ UNCHANGED <<arg, step, size, pc2>>

\* image = self._takeImage(): lines 134, 218-233
TakeImage ==
    /\ pc = "takeImage"
    /\ log' = IF Truthy(filter) THEN <<"setFilter", "expose">> ELSE <<"expose">>
    /\ wheel' = IF Truthy(filter) THEN Append(wheel, filter) ELSE wheel
    /\ shot' = Exposure(1)
    /\ moves' = << >>
    /\ exposures' = exposures + 1
    /\ \E frame \in BOOLEAN :
          IF frame
          THEN pc' = "findStars" /\ exc' = exc
          ELSE pc' = "raised" /\ exc' = "Exception"
    /\ UNCHANGED <<lastFit, filterParam, currentRun, imageRequest, pc2>>
    /\ UNCHANGED <<arg, filter, check_stellar_ditribution, minimum_star, niter,
                   iter, applied, hexapod_offset, cat, step, size, steps, nmoves,
                   zmoves, lastMove, warned, result>>

\* cat = self._findStars(image) and the star count check: lines 137-140
FindStars ==
    /\ pc = "findStars"
    /\ \E c \in AlignCatalogs :
          /\ cat' = c
          /\ IF TooFewStars(CatLen(c), minimum_star)
             THEN pc' = "raised" /\ exc' = "StarNotFoundException"
             ELSE pc' = "checkDistribution" /\ exc' = exc
    /\ log' = Append(log, "extract")
    /\ UNCHANGED <<lastFit, filterParam, wheel, currentRun, imageRequest, shot, pc2>>
    /\ UNCHANGED <<arg, filter, check_stellar_ditribution, minimum_star, niter,
                   iter, applied, hexapod_offset, step, size, moves, exposures,
                   steps, nmoves, zmoves, lastMove, warned, result>>

CheckDistributionMutant ==
    /\ pc = "checkDistribution"
    /\ log' = IF check_stellar_ditribution
              THEN Append(log, "checkDistribution") ELSE log
    /\ pc' = "mkoptics"
    /\ UNCHANGED <<lastFit, filterParam, wheel, currentRun, imageRequest, shot, pc2>>
    /\ UNCHANGED <<arg, filter, check_stellar_ditribution, minimum_star, niter,
                   iter, applied, hexapod_offset, cat, step, size, moves,
                   exposures, steps, nmoves, zmoves, lastMove, warned, exc, result>>

\* if check_stellar_ditribution: self.checkDistribution(cat): lines 142-143
CheckDistribution ==
    /\ pc = "checkDistribution"
    /\ IF check_stellar_ditribution
       THEN /\ log' = Append(log, "checkDistribution")
            /\ IF checkDistribution(cat, size[1], size[2])
               THEN pc' = "raised" /\ exc' = "StarDistributionException"
               ELSE pc' = "mkoptics" /\ exc' = exc
       ELSE /\ log' = log
            /\ pc' = "mkoptics"
            /\ exc' = exc
    /\ UNCHANGED <<lastFit, filterParam, wheel, currentRun, imageRequest, shot, pc2>>
    /\ UNCHANGED <<arg, filter, check_stellar_ditribution, minimum_star, niter,
                   iter, applied, hexapod_offset, cat, step, size, moves,
                   exposures, steps, nmoves, zmoves, lastMove, warned, result>>

ComputeOffsetMutant ==
    /\ pc = "mkoptics"
    /\ \E h \in Offsets : hexapod_offset' = hexapod_offset /\ lastFit' = << h >>
    /\ applied' = FALSE
    /\ log' = Append(log, "mkoptics.align")
    /\ pc' = "correct"
    /\ UNCHANGED <<filterParam, wheel, currentRun, imageRequest, shot, pc2>>
    /\ UNCHANGED <<arg, filter, check_stellar_ditribution, minimum_star, niter,
                   iter, cat, step, size, moves, exposures, steps, nmoves,
                   zmoves, lastMove, warned, exc, result>>

\* hexapod_offset = mkopt.align(image.filename); applied = False: lines 146-153
ComputeOffset ==
    /\ pc = "mkoptics"
    /\ \E h \in Offsets : hexapod_offset' = h /\ lastFit' = << h >>
    /\ applied' = FALSE
    /\ log' = Append(log, "mkoptics.align")
    /\ pc' = "correct"
    /\ UNCHANGED <<filterParam, wheel, currentRun, imageRequest, shot, pc2>>
    /\ UNCHANGED <<arg, filter, check_stellar_ditribution, minimum_star, niter,
                   iter, cat, step, size, moves, exposures, steps, nmoves,
                   zmoves, lastMove, warned, exc, result>>

\* the correction loop over alignOrder: lines 155-165
Correct ==
    /\ pc = "correct"
    /\ \E keys \in { AlignLoop(hexapod_offset, 1) } :
       \E cmds \in { Commands(hexapod_offset, keys) } :
          /\ applied' = (keys # << >>)
          /\ moves' = moves \o cmds
          /\ log' = log \o MoveEvents(cmds)
          /\ nmoves' = nmoves + Len(cmds)
          /\ zmoves' = zmoves + ZCount(cmds)
          /\ lastMove' = IF cmds = << >> THEN lastMove ELSE << Last(cmds) >>
    /\ pc' = "loopEnd"
    /\ UNCHANGED <<lastFit, filterParam, wheel, currentRun, imageRequest, shot, pc2>>
    /\ UNCHANGED <<arg, filter, check_stellar_ditribution, minimum_star, niter,
                   iter, hexapod_offset, cat, step, size, exposures, steps,
                   warned, exc, result>>

\* if not applied: break: lines 167-169
BreakNoCorrection ==
    /\ pc = "loopEnd"
    /\ ~applied
    /\ pc' = "focus"
    /\ UNCHANGED <<lastFit, filterParam, wheel, currentRun, imageRequest, shot, pc2>>
    /\ UNCHANGED <<arg, filter, check_stellar_ditribution, minimum_star, niter,
                   iter, applied, hexapod_offset, cat, step, size, log, moves,
                   exposures, steps, nmoves, zmoves, lastMove, warned, exc, result>>

BreakMaxIterMutant ==
    /\ pc = "loopEnd"
    /\ applied
    /\ LimitReached(iter, niter)
    /\ warned' = TRUE
    /\ result' = << hexapod_offset >>
    /\ pc' = "returned"
    /\ UNCHANGED <<lastFit, filterParam, wheel, currentRun, imageRequest, shot, pc2>>
    /\ UNCHANGED <<arg, filter, check_stellar_ditribution, minimum_star, niter,
                   iter, applied, hexapod_offset, cat, step, size, log, moves,
                   exposures, steps, nmoves, zmoves, lastMove, exc>>

BreakMaxIterStepMutant ==
    /\ pc = "loopEnd"
    /\ applied
    /\ LimitReached(iter, niter)
    /\ warned' = TRUE
    /\ steps' = steps + 1
    /\ log' = Append(log, "stepComplete")
    /\ pc' = "focus"
    /\ UNCHANGED <<lastFit, filterParam, wheel, currentRun, imageRequest, shot, pc2>>
    /\ UNCHANGED <<arg, filter, check_stellar_ditribution, minimum_star, niter,
                   iter, applied, hexapod_offset, cat, step, size, moves,
                   exposures, nmoves, zmoves, lastMove, exc, result>>

\* if iter > niter: warning, break: lines 171-173
BreakMaxIter ==
    /\ pc = "loopEnd"
    /\ applied
    /\ LimitReached(iter, niter)
    /\ warned' = TRUE
    /\ pc' = "focus"
    /\ UNCHANGED <<lastFit, filterParam, wheel, currentRun, imageRequest, shot, pc2>>
    /\ UNCHANGED <<arg, filter, check_stellar_ditribution, minimum_star, niter,
                   iter, applied, hexapod_offset, cat, step, size, log, moves,
                   exposures, steps, nmoves, zmoves, lastMove, exc, result>>

\* self.stepComplete(...); iter += 1; next iteration: lines 175-177
StepComplete ==
    /\ pc = "loopEnd"
    /\ applied
    /\ ~LimitReached(iter, niter)
    /\ steps' = steps + 1
    /\ log' = Append(log, "stepComplete")
    /\ iter' = NextIter(iter)
    /\ pc' = "takeImage"
    /\ UNCHANGED <<lastFit, filterParam, wheel, currentRun, imageRequest, shot, pc2>>
    /\ UNCHANGED <<arg, filter, check_stellar_ditribution, minimum_star, niter,
                   applied, hexapod_offset, cat, step, size, moves, exposures,
                   nmoves, zmoves, lastMove, warned, exc, result>>

\* self._applyHexapodOffset('Z', hexapod_offset.z); return hexapod_offset:
\* lines 179-182
FinalFocus ==
    /\ pc = "focus"
    /\ \E cmds \in { applyHexapodOffset("Z", hexapod_offset.z) } :
          /\ moves' = moves \o cmds
          /\ log' = log \o MoveEvents(cmds)
          /\ nmoves' = nmoves + Len(cmds)
          /\ zmoves' = zmoves + ZCount(cmds)
          /\ lastMove' = IF cmds = << >> THEN lastMove ELSE << Last(cmds) >>
    /\ result' = << hexapod_offset >>
    /\ pc' = "returned"
    /\ UNCHANGED <<lastFit, filterParam, wheel, currentRun, imageRequest, shot, pc2>>
    /\ UNCHANGED <<arg, filter, check_stellar_ditribution, minimum_star, niter,
                   iter, applied, hexapod_offset, cat, step, size, exposures,
                   steps, warned, exc>>

\* one step of the running align call
AlignStep ==
    \/ TakeImage
    \/ FindStars
    \/ CheckDistribution
    \/ ComputeOffset
    \/ Correct
    \/ BreakNoCorrection
    \/ BreakMaxIter
    \/ StepComplete
    \/ FinalFocus

Next ==
    \/ \E f \in Filters, chk \in BOOLEAN, minimum \in MinimumStars, n \in Niters :
          Call(f, chk, minimum, n)
    \/ AlignStep

Spec == Init /\ [][Next]_vars

\* the first call on a fresh controller, run to its end
FirstCall ==
    /\ pc = "idle"
    /\ \E f \in Filters, chk \in BOOLEAN, minimum \in MinimumStars, n \in Niters :
          Call(f, chk, minimum, n)

NextOnce ==
    \/ FirstCall
    \/ AlignStep

\* the call runs on a thread of its own, and every external call returns or
\* raises: a step of align that can be taken is taken
FairSpec == Init /\ [][NextOnce]_vars /\ WF_vars(AlignStep)

(***************************************************************************)
(* A direct call of checkDistribution(catalog)                             *)
(***************************************************************************)
CallCheckDistribution ==
    /\ arg.op = "checkDistribution"
    /\ pc = "idle"
    /\ log' = Append(log, "checkDistribution")
    /\ IF checkDistribution(cat, size[1], size[2])
       THEN pc' = "raised" /\ exc' = "StarDistributionException"
       ELSE pc' = "returned" /\ exc' = exc
    /\ UNCHANGED <<lastFit, filterParam, wheel, currentRun, imageRequest, shot, pc2>>
    /\ UNCHANGED <<arg, filter, check_stellar_ditribution, minimum_star, niter,
                   iter, applied, hexapod_offset, cat, step, size, moves,
                   exposures, steps, nmoves, zmoves, lastMove, warned, result>>

NextDist == CallCheckDistribution

SpecDist == InitDist /\ [][NextDist]_vars

(***************************************************************************)
(* A direct call of _applyHexapodOffset(axis, offset)                      *)
(***************************************************************************)
CallApplyHexapodOffset ==
    /\ arg.op = "_applyHexapodOffset"
    /\ pc = "idle"
    /\ \E cmds \in { applyHexapodOffset(arg.axis, arg.offset) } :
          /\ moves' = moves \o cmds
          /\ log' = log \o MoveEvents(cmds)
          /\ nmoves' = nmoves + Len(cmds)
          /\ zmoves' = zmoves + ZCount(cmds)
          /\ lastMove' = IF cmds = << >> THEN lastMove ELSE << Last(cmds) >>
    /\ pc' = "returned"
    /\ UNCHANGED <<lastFit, filterParam, wheel, currentRun, imageRequest, shot, pc2>>
    /\ UNCHANGED <<arg, filter, check_stellar_ditribution, minimum_star, niter,
                   iter, applied, hexapod_offset, cat, step, size, exposures,
                   steps, warned, exc, result>>

NextOffset == CallApplyHexapodOffset

SpecOffset == InitOffset /\ [][NextOffset]_vars

(***************************************************************************)
(* Properties of align                                                     *)
(***************************************************************************)
\* every coma and astigmatism component of h is within its threshold
\* (|x|, |y| <= 0.009 mm = 9 um; |u|, |v| <= 10 arcsec)
WithinComa(h) ==
    /\ h.x.unit = "um" /\ -9 <= h.x.value /\ h.x.value <= 9
    /\ h.y.unit = "um" /\ -9 <= h.y.value /\ h.y.value <= 9

WithinAstigmatism(h) ==
    /\ h.u.unit = "arcsec" /\ -10 <= h.u.value /\ h.u.value <= 10
    /\ h.v.unit = "arcsec" /\ -10 <= h.v.value /\ h.v.value <= 10

WithinAll(h) == WithinComa(h) /\ WithinAstigmatism(h)

\* the current iteration has measured hexapod_offset
Measured == \E k \in DOMAIN log : log[k] = "mkoptics.align"

OnAxes(cmds, axes) == SelectSeq(cmds, LAMBDA c : c.axis \in axes)

\* C1: every call of align terminates: a running call eventually returns or
\* raises, whatever niter is and whatever offsets are measured, and the loop
\* ends after finitely many iterations (at most niter + 2 exposures, one for
\* a negative niter).
AlignTerminates ==
    /\ Running ~> (pc \in {"returned", "raised"})
    /\ [](exposures <= IF niter < 0 THEN 1 ELSE niter + 2)

\* a call that ran out of budget with niter >= 1 has returned
AlignTerminatesWitness ==
    pc = "returned" /\ warned /\ niter >= 1 /\ exposures = niter + 2

\* C2 (as claimed): for niter >= 1 the loop body runs at most niter times.
BodyRunsAtMostNiter == (arg.op = "align" /\ niter >= 1) => exposures <= niter

\* C3: break on no correction: when every coma and astigmatism component of
\* the measured offset is within its threshold, the iteration sends no
\* command, no further exposure is taken, and the only focuser command that
\* follows is the final Z move.
BreakOnNoCorrection ==
    /\ [](  (Measured /\ WithinAll(hexapod_offset)) =>
              /\ pc \in {"correct", "loopEnd", "focus", "returned"}
              /\ pc \in {"correct", "loopEnd", "focus"} => moves = << >>
              /\ pc \in {"loopEnd", "focus"} => ~applied
              /\ pc = "returned" => (Len(moves) = 1 /\ moves[1].axis = "Z") )
    /\ [][ (Measured /\ WithinAll(hexapod_offset) /\ Running) =>
              /\ exposures' = exposures
              /\ pc' \in {"loopEnd", "focus", "returned"}
              /\ nmoves' > nmoves => (pc' = "returned" /\ nmoves' = nmoves + 1) ]_vars

\* a second iteration measured a converged offset and the call returned
BreakOnNoCorrectionWitness ==
    /\ pc = "returned" /\ exposures = 2 /\ ~warned
    /\ WithinAll(hexapod_offset) /\ nmoves >= 2

\* C4: ordered correction, one class per iteration: an iteration with a coma
\* component above threshold issues no astigmatism (U, V) command, and an
\* astigmatism command is issued only when every coma component is within
\* threshold; no iteration issues commands of both classes.
OrderedCorrection ==
    /\ (Measured /\ ~WithinComa(hexapod_offset)) =>
           OnAxes(moves, {"U", "V"}) = << >>
    /\ OnAxes(moves, {"U", "V"}) # << >> =>
           (WithinComa(hexapod_offset) /\ OnAxes(moves, {"X", "Y"}) = << >>)

\* an iteration corrected astigmatism after an earlier one corrected coma
OrderedCorrectionWitness ==
    /\ pc = "loopEnd" /\ iter = 1
    /\ OnAxes(moves, {"U", "V"}) # << >>
    /\ ~WithinAstigmatism(hexapod_offset)

\* C5: convergence postcondition: align returns either with every coma and
\* astigmatism component of the returned offset within threshold, or with the
\* iteration limit reached (iter > niter, warning logged).
ConvergencePostcondition ==
    pc = "returned" =>
        /\ result = << hexapod_offset >>
        /\ \/ WithinAll(result[1])
           \/ (warned /\ iter > niter)

\* a return on an exhausted budget with an offset still above threshold
ConvergencePostconditionWitness ==
    pc = "returned" /\ warned /\ iter = niter + 1 /\ niter = 1
        /\ ~WithinAll(result[1])

Has(ev) == \E k \in DOMAIN log : log[k] = ev

Pos(ev) == CHOOSE k \in DOMAIN log : log[k] = ev

(***************************************************************************)
(* Properties of checkDistribution                                         *)
(***************************************************************************)
\* the stars of cell (i, j) of the grid: column i, row j
CellStars(catalog, i, j, width, heigth) ==
    SumOver(catalog, {p \in DOMAIN catalog :
                         Between(p[1], i, width) /\ Between(p[2], j, heigth)})

\* C6 (as claimed): checkDistribution accepts a catalog only if every cell
\* (i, j) of the 7 x 7 grid holds at least len(catalog)/(2*8^2) stars.
AcceptsOnlyFilledGrid ==
    (arg.op = "checkDistribution" /\ pc = "returned") =>
        \A i \in Cells : \A j \in Cells :
            CellStars(cat, i, j, size[1], size[2]) * 2 * 8 * 8 >= CatLen(cat)

\* C7: the distribution check gates the optics fit: with
\* check_stellar_ditribution the check runs after star detection and before
\* the offset computation, which is reached only with a catalog the check
\* accepted; when it raises, no offset is computed and no focuser command is
\* issued in that iteration or afterwards; without the flag it never runs.
DistributionCheckGates ==
    /\ [](  /\ (check_stellar_ditribution /\ Has("mkoptics.align")) =>
                  /\ Has("extract") /\ Has("checkDistribution")
                  /\ Pos("extract") < Pos("checkDistribution")
                  /\ Pos("checkDistribution") < Pos("mkoptics.align")
            /\ (check_stellar_ditribution /\ pc = "correct") =>
                  ~checkDistribution(cat, size[1], size[2])
            /\ exc = "StarDistributionException" =>
                  /\ pc = "raised" /\ check_stellar_ditribution
                  /\ Last(log) = "checkDistribution"
                  /\ ~Has("mkoptics.align") /\ moves = << >>
            /\ ~check_stellar_ditribution => ~Has("checkDistribution") )
    /\ [][ exc = "StarDistributionException" =>
               (pc' = "takeImage" /\ nmoves' = 0) ]_vars

\* the check raised in a second iteration, after corrections were applied
DistributionCheckGatesWitness ==
    /\ exc = "StarDistributionException" /\ exposures = 2 /\ nmoves > 0
    /\ cat = OneStar

(***************************************************************************)
(* Properties of _applyHexapodOffset                                       *)
(***************************************************************************)
AxisLetter(a) == CASE a \in {"x", "X"} -> "X" [] a \in {"y", "Y"} -> "Y"
                   [] a \in {"z", "Z"} -> "Z" [] a \in {"u", "U"} -> "U"
                   [] a \in {"v", "V"} -> "V" [] OTHER -> "none"

\* cmd moves by |q| / step, |q| taken in millimetres on X, Y, Z and in degrees
\* on U, V: amount * step * (size of the unit) = |q| in um or arcsec
RightAmount(cmd, q) ==
    cmd.amount[1] * step[1] * (IF cmd.axis \in {"U", "V"} THEN 3600 ELSE 1000)
        = cmd.amount[2] * step[2] * Abs(q.value) * UnitScale(q.unit)

RightCommand(cmd, letter, q) ==
    /\ cmd.axis = letter
    /\ cmd.op = IF q.value > 0 THEN "moveOut" ELSE "moveIn"
    /\ cmd.amount[2] > 0
    /\ RightAmount(cmd, q)

\* C8: _applyHexapodOffset issues exactly one command for an axis X, Y, Z, U
\* or V in any letter case: on the upper-cased axis, moveOut for a strictly
\* positive offset and moveIn otherwise, by |offset| / step (millimetres for
\* X, Y, Z, degrees for U, V); for any other axis name it issues nothing.
OneCommandPerOffset ==
    (arg.op = "_applyHexapodOffset" /\ pc = "returned") =>
        IF AxisLetter(arg.axis) # "none"
        THEN Len(moves) = 1 /\ RightCommand(moves[1], AxisLetter(arg.axis), arg.offset)
        ELSE moves = << >>

\* a zero angle on the lower-case axis u moved U in by nothing
OneCommandPerOffsetWitness ==
    /\ arg.op = "_applyHexapodOffset" /\ pc = "returned"
    /\ arg.axis = "u" /\ arg.offset = Quantity(0, "deg")
    /\ moves = << [op |-> "moveIn", amount |-> <<0, 1>>, axis |-> "U"] >>

TooFewStarsStops ==
    /\ [](  /\ exc = "StarNotFoundException" =>
                  /\ pc = "raised" /\ Last(log) = "extract"
                  /\ ~Has("checkDistribution") /\ ~Has("mkoptics.align")
                  /\ moves = << >>
            /\ (Has("extract") /\ minimum_star > 0
                    /\ CatLen(cat) < minimum_star) =>
                  exc = "StarNotFoundException"
            /\ minimum_star <= 0 => exc # "StarNotFoundException" )
    /\ [][ exc = "StarNotFoundException" =>
               (pc' = "takeImage" /\ nmoves' = 0) ]_vars

\* the star count raised in a second iteration, after corrections
TooFewStarsStopsWitness ==
    /\ exc = "StarNotFoundException" /\ exposures = 2 /\ nmoves > 0
    /\ cat = DiagonalCatalog /\ minimum_star = 8

\* the number of commands of cmds on one axis
CountOn(cmds, axis) == Len(OnAxes(cmds, {axis}))

\* q is strictly above the limit in absolute value
Above(q, limit) == q.value > limit \/ q.value < -limit

OneIf(b) == IF b THEN 1 ELSE 0

\* the component of h a command on an axis corrects
Component(h, axis) == CASE axis = "X" -> h.x [] axis = "Y" -> h.y
                        [] axis = "U" -> h.u [] axis = "V" -> h.v
                        [] axis = "Z" -> h.z

\* C11: thresholded correction per component: in the class an iteration
\* corrects, the focuser receives exactly one command for each component
\* strictly above the class threshold (0.009 mm coma, 10 arcsec astigmatism)
\* and none for a component at or below it.
ThresholdedCorrection ==
    (arg.op = "align" /\ pc = "loopEnd") =>
        /\ CountOn(moves, "X") = OneIf(Above(hexapod_offset.x, 9))
        /\ CountOn(moves, "Y") = OneIf(Above(hexapod_offset.y, 9))
        /\ WithinComa(hexapod_offset) =>
              /\ CountOn(moves, "U") = OneIf(Above(hexapod_offset.u, 10))
              /\ CountOn(moves, "V") = OneIf(Above(hexapod_offset.v, 10))
        /\ \A k \in DOMAIN moves :
              /\ moves[k].axis \in {"X", "Y", "U", "V"}
              /\ RightCommand(moves[k], moves[k].axis,
                              Component(hexapod_offset, moves[k].axis))

\* an iteration corrected both coma components, both above threshold
ThresholdedCorrectionWitness ==
    /\ arg.op = "align" /\ pc = "loopEnd"
    /\ Above(hexapod_offset.x, 9) /\ Above(hexapod_offset.y, 9)
    /\ Len(moves) = 2 /\ moves[1].axis = "X" /\ moves[2].axis = "Y"

\* C13: stepComplete is emitted once for each iteration that applied a
\* correction and did not end the loop, after that iteration's focuser
\* commands and before the next exposure, never for the iteration that ends
\* the loop: at a return there is one stepComplete less than exposures.
StepCompletePerIteration ==
    (arg.op = "align" /\ pc # "idle") =>
        /\ pc = "returned" => steps = exposures - 1
        /\ steps = IF pc = "takeImage" THEN exposures ELSE exposures - 1
        /\ Has("stepComplete") =>
              /\ pc = "takeImage" /\ applied
              /\ Last(log) = "stepComplete"
              /\ Has("expose") /\ Has("move")
              /\ Cardinality({k \in DOMAIN log : log[k] = "stepComplete"}) = 1
        /\ (pc = "takeImage" /\ exposures > 0) => Has("stepComplete")

\* a call returned after three exposures and two stepComplete events
StepCompletePerIterationWitness ==
    arg.op = "align" /\ pc = "returned" /\ exposures = 3 /\ steps = 2

\* the place of the first event ev of the current iteration
FirstPos(ev) == CHOOSE k \in DOMAIN log :
                    log[k] = ev /\ \A j \in DOMAIN log : log[j] = ev => k <= j

\* C12: every measurement precedes the corrections derived from it, and the
\* returned offset is a real measurement: a call takes at least one exposure
\* whatever niter is, every focuser command of an iteration follows that
\* iteration's exposure, star detection and offset computation, and align
\* returns the result of the last offset computation of the call.
MeasureBeforeCorrect ==
    arg.op = "align" =>
        /\ pc \in {"returned", "raised"} => exposures >= 1
        /\ Has("move") =>
              /\ Has("expose") /\ Has("extract") /\ Has("mkoptics.align")
              /\ FirstPos("expose") < FirstPos("extract")
              /\ FirstPos("extract") < FirstPos("mkoptics.align")
              /\ FirstPos("mkoptics.align") < FirstPos("move")
              /\ lastFit = << hexapod_offset >>
        /\ nmoves > 0 => lastFit # << >>
        /\ pc = "returned" => (lastFit # << >> /\ result = lastFit)

\* a call with a negative niter returned its one measurement after correcting
MeasureBeforeCorrectWitness ==
    /\ arg.op = "align" /\ pc = "returned" /\ niter < 0 /\ exposures = 1
    /\ nmoves = 3 /\ result = lastFit /\ result # << HexapodAxes >>

(***************************************************************************)
(* Calls of align with and without a filter                                *)
(***************************************************************************)
\* the filter arguments: None, the empty string, two filter names
FilterArgs == {"None", "", "R", "V"}

NextFilter ==
    \/ \E f \in FilterArgs, chk \in BOOLEAN, n \in {-1, 0} : Call(f, chk, 0, n)
    \/ AlignStep

SpecFilter == Init /\ [][NextFilter]_vars

\* C14: filter wheel frame condition: a call of align without a filter (None
\* or empty) never commands the filter wheel, whatever filter an earlier call
\* used; a call with a filter calls setFilter with exactly that filter
\* before every exposure.
FilterWheelFrame ==
    (arg.op = "align" /\ pc # "idle") =>
        IF filterParam \in {"None", ""}
        THEN wheel = << >> /\ ~Has("setFilter")
        ELSE /\ Len(wheel) = exposures
             /\ \A k \in DOMAIN wheel : wheel[k] = filterParam
             /\ Has("expose") =>
                   (log[1] = "setFilter" /\ log[2] = "expose"
                       /\ shot.filter = filterParam)

\* a call with the empty filter took two exposures and left the wheel alone
FilterWheelFrameWitness ==
    /\ arg.op = "align" /\ pc = "returned" /\ filterParam = ""
    /\ exposures = 2 /\ wheel = << >>

(***************************************************************************)
(* Two callers of align on one controller                                  *)
(***************************************************************************)
\* The second caller runs the same align(filter="V", exptime=20); of its run
\* the model keeps what touches the shared fields: the entry that writes
\* them, each exposure that reads them, and the end of the call.

\* the second caller enters align: lines 95-122
Enter2 ==
    /\ arg.op = "align"
    /\ pc2 \in {"idle", "done"}
    /\ LockFree
    /\ pc2' = "takeImage"
    /\ currentRun' = RunID(2)
    /\ imageRequest' = NewRequest(20)
    /\ filter' = NewFilter("V")
    /\ UNCHANGED <<pc, arg, check_stellar_ditribution, minimum_star, niter, iter,
                   applied, hexapod_offset, cat, step, size, log, moves,
                   exposures, steps, nmoves, zmoves, lastMove, warned, exc,
                   result, lastFit, filterParam, wheel, shot>>

\* the second caller takes an exposure: lines 134, 218-233
TakeImage2 ==
    /\ pc2 = "takeImage"
    /\ shot' = Exposure(2)
    /\ pc2' = "body"
    /\ UNCHANGED <<pc, arg, filter, check_stellar_ditribution, minimum_star,
                   niter, iter, applied, hexapod_offset, cat, step, size, log,
                   moves, exposures, steps, nmoves, zmoves, lastMove, warned,
                   exc, result, lastFit, filterParam, wheel, currentRun,
                   imageRequest>>

\* the rest of an iteration of the second caller: the loop goes on, or the
\* call returns or raises: lines 136-182
Body2 ==
    /\ pc2 = "body"
    /\ pc2' \in {"takeImage", "done"}
    /\ UNCHANGED <<pc, arg, filter, check_stellar_ditribution, minimum_star,
                   niter, iter, applied, hexapod_offset, cat, step, size, log,
                   moves, exposures, steps, nmoves, zmoves, lastMove, warned,
                   exc, result, lastFit, filterParam, wheel, currentRun,
                   imageRequest, shot>>

NextLock ==
    \/ \E f \in Filters : Call(f, FALSE, 0, 0)
    \/ AlignStep
    \/ Enter2
    \/ TakeImage2
    \/ Body2

SpecLock == Init /\ [][NextLock]_vars

\* C15: runs on one controller are mutually exclusive: the steps of two
\* concurrent calls of align do not interleave, and every exposure reads the
\* currentRun, imageRequest and filter that the run taking it has set.
RunsMutuallyExclusive ==
    /\ ~(Running /\ Running2)
    /\ shot.by = 1 =>
          /\ shot.currentRun = RunID(1)
          /\ shot.imageRequest = NewRequest(0)
          /\ shot.filter = IF filterParam = "R" THEN "R" ELSE "False"
    /\ shot.by = 2 =>
          /\ shot.currentRun = RunID(2)
          /\ shot.imageRequest = NewRequest(20)
          /\ shot.filter = "V"
    /\ Running => (currentRun = RunID(1) /\ imageRequest = NewRequest(0))
    /\ Running2 => (currentRun = RunID(2) /\ filter = "V")

\* the first caller takes its second exposure after a run of the second one
RunsMutuallyExclusiveWitness ==
    /\ pc2 = "done" /\ pc = "findStars" /\ exposures = 2
    /\ shot.by = 1 /\ shot.filter = "R" /\ shot.currentRun = "autoalign-1"

====
